---- MODULE Spec2Model ----
\* A model of GadgetInspectionSession (src/gadgetsdk/_gadgetinspectionsession.py):
\* the lifecycle operations start / pause / resume / stop called by host
\* threads under threadLock, and the worker thread's polling loop
\* (_threadWorker, _ensureSessionContext, _processImage,
\* _sanityCheckAndSetProcessingInterval, _tryParseApiErrorResponse,
\* _fireOnError), one action per step between two blocking points.
EXTENDS Integers, Sequences, FiniteSets, TLC

\* Python's None where the value is otherwise a string.
None == "None"

\* A number or boolean field of a JSON body, as dict.get(name, None) returns
\* it: Absent for None, Some(v) for the value v.
Absent == <<>>
Some(v) == <<v>>
ValueOf(x) == x[1]

\* threadLock when no thread holds it.
Unlocked == 0

----------------------------------------------------------------------------
\* Bounds of the model.

\* Number of host threads that call the lifecycle operations.
NumHosts == 1
ConcurrentHosts == 2

Hosts == 1..NumHosts

----------------------------------------------------------------------------
\* Program constants.

ErrorTypeInternal == "OE_SDK_ERROR"
ErrorTypeCallbackFailure == "OE_SDK_CALLBACK_EXCEPTION"

\* _sanityCheckAndSetProcessingInterval: max(20, .) and min(60 * 30, .)
SystemMinIntervalSec == 20
SystemMaxIntervalSec == 1800
\* __init__: self.SleepIntervalSec = 60; self._sanityCheckAndSetProcessingInterval(60)
DefaultIntervalSec == 60
\* _threadWorker: time.sleep(30) after a failed _ensureSessionContext
ContextRetrySleepSec == 30

----------------------------------------------------------------------------
\* Inputs: the configurations a session can be constructed with, and what the
\* server and the host callbacks can answer.

\* minProcessingIntervalSec values that pass the constructor's check (>= 0).
MinIntervals == {0, 120, 2000}

\* Constructor arguments tried by the specification that starts before
\* __init__: the API key, the minimum interval and the two confidence levels.
CtorApiKeys == {None, "", "key"}
CtorMinIntervals == {-1, 0}
CtorWarningLevels == {Absent, Some(0), Some(5), Some(6)}
CtorPauseLevels == {Some(0), Some(1), Some(6)}

\* Values the server sends back in a createcontext response.
CtxIdValue == "c1"
PrimaryUrlValue == "https://a/p"
FallbackUrlValue == "https://a/f"

\* NextProcessIntervalSec hints of the process API.
Hints == {5, 10, 45, 5000}
Scores == {12}
Qualities == {7}

Optional(S) == {Absent} \cup {Some(v) : v \in S}

Max2(a, b) == IF a >= b THEN a ELSE b
Min2(a, b) == IF a <= b THEN a ELSE b

\* A createcontext response. raised: requests.post raised (no response);
\* json: whether response.json() parses; the other fields are the body's
\* fields, None when absent.
ContextResponses ==
    LET noBody == [ErrorType |-> None, ErrorDetails |-> None, ContextId |-> None,
                   ProcessRequestUrl |-> None, FallbackProcessRequestUrl |-> None]
    IN  {[raised |-> TRUE, status |-> 0, json |-> FALSE] @@ noBody}
        \cup {[raised |-> FALSE, status |-> 500, json |-> FALSE] @@ noBody}
        \cup {[raised |-> FALSE, status |-> 200, json |-> FALSE] @@ noBody}
        \cup {[raised |-> FALSE, status |-> 500, json |-> TRUE,
               ErrorType |-> t, ErrorDetails |-> d, ContextId |-> None,
               ProcessRequestUrl |-> None, FallbackProcessRequestUrl |-> None] :
                 t \in {None, "OE_API_ERROR"}, d \in {None, "details"}}
        \cup {[raised |-> FALSE, status |-> 200, json |-> TRUE,
               ErrorType |-> None, ErrorDetails |-> None, ContextId |-> c,
               ProcessRequestUrl |-> p, FallbackProcessRequestUrl |-> f] :
                 c \in {None, CtxIdValue}, p \in {None, PrimaryUrlValue},
                 f \in {None, FallbackUrlValue}}

\* The verdict fields a process API body lacks.
AbsentFields(r) ==
    {f \in {"NextProcessIntervalSec", "PrintQuality", "WarningSuggested",
            "PauseSuggested", "Score"} : r[f] = Absent}

\* A process API response, in the same shape. A status-200 JSON body carries
\* all five verdict fields, all but one of them, or none.
ProcessResponses ==
    LET noBody == [ErrorType |-> None, ErrorDetails |-> None,
                   NextProcessIntervalSec |-> Absent, PrintQuality |-> Absent,
                   WarningSuggested |-> Absent, PauseSuggested |-> Absent,
                   Score |-> Absent]
    IN  {[raised |-> TRUE, status |-> 0, json |-> FALSE] @@ noBody}
        \cup {[raised |-> FALSE, status |-> 500, json |-> FALSE] @@ noBody}
        \cup {[raised |-> FALSE, status |-> 200, json |-> FALSE] @@ noBody}
        \cup {[raised |-> FALSE, status |-> 500, json |-> TRUE,
               ErrorType |-> t, ErrorDetails |-> d] @@ noBody :
                 t \in {None, "OE_API_ERROR"}, d \in {None, "details"}}
        \cup {[raised |-> FALSE, status |-> 200, json |-> TRUE] @@ noBody}
        \cup {r \in {[raised |-> FALSE, status |-> 200, json |-> TRUE,
                      ErrorType |-> None, ErrorDetails |-> None,
                      NextProcessIntervalSec |-> n, PrintQuality |-> q,
                      WarningSuggested |-> w, PauseSuggested |-> p, Score |-> s] :
                        n \in Optional(Hints), q \in Optional(Qualities),
                        w \in Optional(BOOLEAN), p \in Optional(BOOLEAN),
                        s \in Optional(Scores)} :
                 Cardinality(AbsentFields(r)) <= 1}

\* The response slot of a tick in which no submission response was received.
NoResponse ==
    [raised |-> FALSE, status |-> 0, json |-> FALSE,
     ErrorType |-> None, ErrorDetails |-> None,
     NextProcessIntervalSec |-> Absent, PrintQuality |-> Absent,
     WarningSuggested |-> Absent, PauseSuggested |-> Absent, Score |-> Absent]

----------------------------------------------------------------------------
VARIABLES
    \* SessionConfig (immutable after construction)
    apiKey,
    minProcessingIntervalSec,
    hasImageRequest,            \* on_new_image_request is not None
    hasStateUpdate,             \* on_state_update is not None
    hasOnError,                 \* on_error is not None
    warningConfidenceLevel, pauseConfidenceLevel,
    constructed,                \* "pending", then "ok" or "raised": __init__
    \* fields of the session object
    hasRan, isRunning, isPaused, UseFallbackUrl,
    thread,                     \* None, or "worker" once start() created it
    threadLock,                 \* Unlocked, or the host thread holding it
    ContextId, ProcessRequestUrl, ProcessRequestFallbackUrl,
    SleepIntervalSec,
    \* control state
    hpc,                        \* per host thread: the call it is inside
    wpc,                        \* the worker thread's position
    \* observations
    tick,                       \* what the current loop iteration has done
    startCalled,                \* some start() call has executed its body
    startResult,                \* outcome of the latest start() call
    launched,                   \* number of worker threads ever launched
    provisioned,                \* a complete createcontext response arrived
    subFailed                   \* some submission has failed

vars == <<apiKey, minProcessingIntervalSec, hasImageRequest, hasStateUpdate,
          hasOnError, warningConfidenceLevel, pauseConfidenceLevel,
          constructed, hasRan, isRunning, isPaused,
          UseFallbackUrl, thread, threadLock, ContextId, ProcessRequestUrl,
          ProcessRequestFallbackUrl, SleepIntervalSec, hpc, wpc, tick,
          startCalled, startResult, launched, provisioned, subFailed>>

arguments == <<apiKey, minProcessingIntervalSec, hasImageRequest,
               hasStateUpdate, hasOnError, warningConfidenceLevel,
               pauseConfidenceLevel>>
config == <<arguments, constructed>>
context == <<ContextId, ProcessRequestUrl, ProcessRequestFallbackUrl>>
lifecycle == <<hasRan, isRunning, isPaused, thread, threadLock>>
hostObs == <<startCalled, startResult, launched>>

\* The record of the current loop iteration, as it stands when the iteration
\* begins; it is kept until the iteration's sleep is over.
NewTick ==
    [paused |-> FALSE,          \* the iteration found isPaused set
     provReq |-> 0,             \* createcontext requests sent
     ensure |-> "none",         \* what _ensureSessionContext returned
     supplier |-> "none",       \* what on_new_image_request did
     subReq |-> 0,              \* submission requests sent
     subUrl |-> None,           \* the URL the submission went to
     resp |-> NoResponse,       \* the submission's response
     stateCalls |-> <<>>,       \* argument tuples given to on_state_update
     callback |-> "none",       \* what on_state_update did when invoked
     errs |-> <<>>,             \* (errorType, errorDetails) given to on_error
     dropped |-> 0,             \* error events dropped for want of a handler
     handlerRaised |-> FALSE,   \* on_error raised
     escaped |-> FALSE]         \* an exception left _fireOnError

----------------------------------------------------------------------------
\* _sanityCheckAndSetProcessingInterval: the value stored in SleepIntervalSec.
SanityCheckedInterval_NoFloor(newValueSec, minSec) ==
    Max2(minSec, Min2(SystemMaxIntervalSec, newValueSec))

SanityCheckedInterval_NoOverride(newValueSec, minSec) ==
    Min2(SystemMaxIntervalSec, Max2(SystemMinIntervalSec, newValueSec))

SanityCheckedInterval(newValueSec, minSec) ==
    LET v1 == Max2(SystemMinIntervalSec, newValueSec)
        v2 == Min2(SystemMaxIntervalSec, v1)
    IN  Max2(minSec, v2)

\* __init__: the fields of the session object other than its arguments.
FreshSessionState ==
    /\ hasRan = FALSE
    /\ isRunning = FALSE
    /\ isPaused = FALSE
    /\ UseFallbackUrl = FALSE
    /\ thread = None
    /\ threadLock = Unlocked
    /\ ContextId = None
    /\ ProcessRequestUrl = None
    /\ ProcessRequestFallbackUrl = None
    /\ SleepIntervalSec = SanityCheckedInterval(DefaultIntervalSec, minProcessingIntervalSec)
    /\ wpc = "unborn"
    /\ tick = NewTick
    /\ startCalled = FALSE
    /\ startResult = "none"
    /\ launched = 0
    /\ provisioned = FALSE
    /\ subFailed = FALSE

FreshSession ==
    /\ FreshSessionState
    /\ hpc = [h \in Hosts |-> "idle"]

\* __init__: the checks under "Ensure the required values are set".
ValidArguments_PauseLevelUnchecked ==
    /\ ~(apiKey = None \/ apiKey = "")
    /\ hasImageRequest
    /\ hasStateUpdate
    /\ ~(minProcessingIntervalSec < 0)
    /\ ~(warningConfidenceLevel # Absent
          /\ (ValueOf(warningConfidenceLevel) < 1 \/ ValueOf(warningConfidenceLevel) > 5))

ValidArguments ==
    /\ ~(apiKey = None \/ apiKey = "")
    /\ hasImageRequest
    /\ hasStateUpdate
    /\ ~(minProcessingIntervalSec < 0)
    /\ ~(warningConfidenceLevel # Absent
          /\ (ValueOf(warningConfidenceLevel) < 1 \/ ValueOf(warningConfidenceLevel) > 5))
    /\ ~(pauseConfidenceLevel # Absent
          /\ (ValueOf(pauseConfidenceLevel) < 1 \/ ValueOf(pauseConfidenceLevel) > 5))

\* The state of a session whose construction succeeded.
Init ==
    /\ apiKey = "key"
    /\ minProcessingIntervalSec \in MinIntervals
    /\ hasImageRequest = TRUE
    /\ hasStateUpdate = TRUE
    /\ hasOnError \in BOOLEAN
    /\ warningConfidenceLevel = Absent
    /\ pauseConfidenceLevel = Absent
    /\ constructed = "ok"
    /\ FreshSession

\* A constructed session shared by ConcurrentHosts host threads.
InitConcurrent ==
    /\ apiKey = "key"
    /\ minProcessingIntervalSec = 0
    /\ hasImageRequest = TRUE
    /\ hasStateUpdate = TRUE
    /\ hasOnError = TRUE
    /\ warningConfidenceLevel = Absent
    /\ pauseConfidenceLevel = Absent
    /\ constructed = "ok"
    /\ FreshSessionState
    /\ hpc = [h \in 1..ConcurrentHosts |-> "idle"]

\* The state before GadgetInspectionSession(...) is evaluated, for any
\* arguments.
InitCtor ==
    /\ apiKey \in CtorApiKeys
    /\ minProcessingIntervalSec \in CtorMinIntervals
    /\ hasImageRequest \in BOOLEAN
    /\ hasStateUpdate \in BOOLEAN
    /\ hasOnError = TRUE
    /\ warningConfidenceLevel \in CtorWarningLevels
    /\ pauseConfidenceLevel \in CtorPauseLevels
    /\ constructed = "pending"
    /\ FreshSession

\* __init__: it raises on invalid arguments, and then the caller holds no
\* session object to call anything on.
Construct ==
    /\ constructed = "pending"
    /\ constructed' = IF ValidArguments THEN "ok" ELSE "raised"
    /\ UNCHANGED <<arguments, context, lifecycle, hostObs, UseFallbackUrl,
                   SleepIntervalSec, hpc, wpc, tick, provisioned, subFailed>>


----------------------------------------------------------------------------
\* Host threads: the lifecycle operations. A host thread first enters a call
\* (hpc[h] names it) and then runs the "with self.threadLock" block once the
\* lock is free; a block that does not wait inside is one step.

Call(h, op) ==
    /\ hpc[h] = "idle"
    /\ hpc' = [hpc EXCEPT ![h] = op]
    /\ UNCHANGED <<config, context, lifecycle, hostObs, UseFallbackUrl,
                   SleepIntervalSec, wpc, tick, provisioned, subFailed>>

\* start(): "if self.hasRan is True: raise"
StartRefused_OnlyWhileRunning == isRunning = TRUE

StartRefused_Never == FALSE

StartRefused == hasRan = TRUE

start(h) ==
    /\ hpc[h] = "start"
    /\ threadLock = Unlocked
    /\ hpc' = [hpc EXCEPT ![h] = "idle"]
    /\ startCalled' = TRUE
    /\ IF StartRefused
       THEN /\ startResult' = "raised"
            /\ UNCHANGED <<hasRan, isRunning, thread, wpc, launched>>
       ELSE /\ startResult' = "ok"
            /\ hasRan' = TRUE
            /\ isRunning' = TRUE
            /\ thread' = "worker"
            /\ wpc' = "loop"
            /\ launched' = launched + 1
    /\ UNCHANGED <<config, context, isPaused, threadLock, UseFallbackUrl,
                   SleepIntervalSec, tick, provisioned, subFailed>>

pause(h) ==
    /\ hpc[h] = "pause"
    /\ threadLock = Unlocked
    /\ hpc' = [hpc EXCEPT ![h] = "idle"]
    /\ isPaused' = TRUE
    /\ UNCHANGED <<config, context, hasRan, isRunning, thread, threadLock,
                   hostObs, UseFallbackUrl, SleepIntervalSec, wpc, tick,
                   provisioned, subFailed>>

resume(h) ==
    /\ hpc[h] = "resume"
    /\ threadLock = Unlocked
    /\ hpc' = [hpc EXCEPT ![h] = "idle"]
    /\ isPaused' = FALSE
    /\ UNCHANGED <<config, context, hasRan, isRunning, thread, threadLock,
                   hostObs, UseFallbackUrl, SleepIntervalSec, wpc, tick,
                   provisioned, subFailed>>

\* stop(), up to self.thread.join(): the lock stays held while joining.
stop(h) ==
    /\ hpc[h] = "stop"
    /\ threadLock = Unlocked
    /\ IF thread # None
       THEN /\ isRunning' = FALSE
            /\ threadLock' = h
            /\ hpc' = [hpc EXCEPT ![h] = "join"]
       ELSE /\ hpc' = [hpc EXCEPT ![h] = "idle"]
            /\ UNCHANGED <<isRunning, threadLock>>
    /\ UNCHANGED <<config, context, hasRan, isPaused, thread, hostObs,
                   UseFallbackUrl, SleepIntervalSec, wpc, tick, provisioned,
                   subFailed>>

\* self.thread.join() returns once the worker thread has ended.
JoinReturns_WithoutWaiting == TRUE

JoinReturns == wpc \in {"exited", "crashed"}

\* stop(), from the return of self.thread.join() on.
stopJoined(h) ==
    /\ hpc[h] = "join"
    /\ JoinReturns
    /\ thread' = None
    /\ threadLock' = Unlocked
    /\ hpc' = [hpc EXCEPT ![h] = "idle"]
    /\ UNCHANGED <<config, context, hasRan, isRunning, isPaused, hostObs,
                   UseFallbackUrl, SleepIntervalSec, wpc, tick, provisioned,
                   subFailed>>


----------------------------------------------------------------------------
\* Helpers of the worker thread.

\* _fireOnError(errorType, errorDetails) applied to the iteration's record t;
\* raises: whether the host's on_error raises when invoked. The handler's
\* exception is caught (and printed), so escaped stays as it was.
FireOnError_Reentrant(t, errorType, errorDetails, raises) ==
    IF hasOnError
    THEN [t EXCEPT !.errs = IF raises
                            THEN @ \o <<<<errorType, errorDetails>>,
                                        <<ErrorTypeInternal, "Error in error handler">>>>
                            ELSE Append(@, <<errorType, errorDetails>>),
                   !.handlerRaised = @ \/ raises]
    ELSE [t EXCEPT !.dropped = @ + 1]

FireOnError_Unguarded(t, errorType, errorDetails, raises) ==
    IF hasOnError
    THEN [t EXCEPT !.errs = Append(@, <<errorType, errorDetails>>),
                   !.handlerRaised = @ \/ raises,
                   !.escaped = @ \/ raises]
    ELSE [t EXCEPT !.dropped = @ + 1]

FireOnError(t, errorType, errorDetails, raises) ==
    IF hasOnError
    THEN [t EXCEPT !.errs = Append(@, <<errorType, errorDetails>>),
                   !.handlerRaised = @ \/ raises]
    ELSE [t EXCEPT !.dropped = @ + 1]

\* _tryParseApiErrorResponse(response)
TryParseApiErrorResponse_DetailsOnly(r) ==
    IF r.json /\ r.ErrorDetails # None
    THEN <<ErrorTypeInternal, r.ErrorDetails>>
    ELSE <<None, None>>

TryParseApiErrorResponse(r) ==
    IF r.json /\ r.ErrorType # None /\ r.ErrorDetails # None
    THEN <<r.ErrorType, r.ErrorDetails>>
    ELSE <<None, None>>

\* Where the worker goes after an iteration's work: to its sleep, unless an
\* exception left _fireOnError, which no handler of the worker would absorb.
AfterWork_FailureEnds(t, sleepPc) ==
    IF t.escaped \/ t.errs # <<>> \/ t.dropped > 0 THEN "crashed" ELSE sleepPc

AfterWork(t, sleepPc) == IF t.escaped THEN "crashed" ELSE sleepPc

----------------------------------------------------------------------------
\* The worker thread: _threadWorker.

\* "while self.isRunning:"
LoopTest ==
    /\ wpc = "loop"
    /\ wpc' = IF isRunning THEN "body" ELSE "exited"
    /\ UNCHANGED <<tick, config, context, lifecycle, hostObs, UseFallbackUrl,
                   SleepIntervalSec, hpc, provisioned, subFailed>>

\* "if self.isPaused is False:"
SkipsWhenPaused_Never == FALSE

SkipsWhenPaused == isPaused # FALSE

CheckPaused ==
    /\ wpc = "body"
    /\ IF SkipsWhenPaused
       THEN /\ tick' = [tick EXCEPT !.paused = TRUE]
            /\ wpc' = "sleep"
       ELSE /\ wpc' = "ensure"
            /\ UNCHANGED tick
    /\ UNCHANGED <<config, context, lifecycle, hostObs, UseFallbackUrl,
                   SleepIntervalSec, hpc, provisioned, subFailed>>

\* _ensureSessionContext: "if self.ContextId is not None: return True"
HasContext_Never == FALSE

HasContext == ContextId # None

EnsureHasContext ==
    /\ wpc = "ensure"
    /\ HasContext
    /\ tick' = [tick EXCEPT !.ensure = "ok"]
    /\ wpc' = "supplier"
    /\ UNCHANGED <<config, context, lifecycle, hostObs, UseFallbackUrl,
                   SleepIntervalSec, hpc, provisioned, subFailed>>

\* _ensureSessionContext: requests.post(createcontext) is sent.
ProvisionSend ==
    /\ wpc = "ensure"
    /\ ~HasContext
    /\ tick' = [tick EXCEPT !.provReq = @ + 1]
    /\ wpc' = "provWait"
    /\ UNCHANGED <<config, context, lifecycle, hostObs, UseFallbackUrl,
                   SleepIntervalSec, hpc, provisioned, subFailed>>

\* A createcontext response that carries all three required fields.
ContextComplete(r) ==
    /\ ~r.raised /\ r.status = 200 /\ r.json
    /\ r.ContextId # None
    /\ r.ProcessRequestUrl # None
    /\ r.FallbackProcessRequestUrl # None

\* _ensureSessionContext, from the return of requests.post on.
ProvisionRecv(r, raises) ==
    /\ wpc = "provWait"
    /\ provisioned' = (provisioned \/ ContextComplete(r))
    /\ IF r.raised
       THEN \* requests.post raised: except Exception
            /\ tick' = [FireOnError(tick, ErrorTypeInternal, "exception", raises)
                          EXCEPT !.ensure = "failed"]
            /\ UNCHANGED context
       ELSE IF r.status # 200
       THEN LET e == TryParseApiErrorResponse(r)
            IN  /\ tick' = [(IF e[1] # None /\ e[2] # None
                             THEN FireOnError(tick, e[1], e[2], raises)
                             ELSE FireOnError(tick, ErrorTypeInternal,
                                              "Failed to create a new session context.",
                                              raises))
                              EXCEPT !.ensure = "failed"]
                /\ UNCHANGED context
       ELSE IF ~r.json
       THEN \* response.json() raised
            /\ tick' = [FireOnError(tick, ErrorTypeInternal, "exception", raises)
                          EXCEPT !.ensure = "failed"]
            /\ UNCHANGED context
       ELSE \* the three fields are stored before they are validated
            /\ ContextId' = r.ContextId
            /\ ProcessRequestUrl' = r.ProcessRequestUrl
            /\ ProcessRequestFallbackUrl' = r.FallbackProcessRequestUrl
            /\ IF r.ContextId = None
               THEN tick' = [FireOnError(tick, ErrorTypeInternal,
                               "Failed to get a valid context ID from the response.", raises)
                               EXCEPT !.ensure = "failed"]
               ELSE IF r.ProcessRequestUrl = None
               THEN tick' = [FireOnError(tick, ErrorTypeInternal,
                               "Failed to get a valid ProcessRequestUrl from the response.", raises)
                               EXCEPT !.ensure = "failed"]
               ELSE IF r.FallbackProcessRequestUrl = None
               THEN tick' = [FireOnError(tick, ErrorTypeInternal,
                               "Failed to get a valid FallbackProcessRequestUrl from the response.", raises)
                               EXCEPT !.ensure = "failed"]
               ELSE tick' = [tick EXCEPT !.ensure = "ok"]
    /\ wpc' = IF tick'.ensure = "ok" THEN "supplier" ELSE AfterWork(tick', "sleep30")
    /\ UNCHANGED <<config, lifecycle, hostObs, UseFallbackUrl, SleepIntervalSec,
                   hpc, subFailed>>

\* "time.sleep(30); continue" after a failed _ensureSessionContext
RetrySleep ==
    /\ wpc = "sleep30"
    /\ tick' = NewTick
    /\ wpc' = "loop"
    /\ UNCHANGED <<config, context, lifecycle, hostObs, UseFallbackUrl,
                   SleepIntervalSec, hpc, provisioned, subFailed>>

\* "if imageBytes is not None:" after on_new_image_request, whose outcome is
\* "image" (bytes returned), "empty" (None returned) or "raised".
HasImage_Always(outcome) == TRUE

HasImage(outcome) == outcome = "image"

\* on_new_image_request() and the test of its result.
RequestImage(outcome, raises) ==
    /\ wpc = "supplier"
    /\ LET t1 == [tick EXCEPT !.supplier = outcome]
           t2 == IF outcome = "raised"
                 THEN FireOnError(t1, ErrorTypeCallbackFailure, "exception", raises)
                 ELSE t1
       IN  /\ tick' = t2
           /\ wpc' = IF t2.escaped THEN "crashed"
                     ELSE IF HasImage(outcome) THEN "submit" ELSE "sleep"
    /\ UNCHANGED <<config, context, lifecycle, hostObs, UseFallbackUrl,
                   SleepIntervalSec, hpc, provisioned, subFailed>>

\* "time.sleep(self.SleepIntervalSec)" at the end of the loop body
Sleep ==
    /\ wpc = "sleep"
    /\ tick' = NewTick
    /\ wpc' = "loop"
    /\ UNCHANGED <<config, context, lifecycle, hostObs, UseFallbackUrl,
                   SleepIntervalSec, hpc, provisioned, subFailed>>


----------------------------------------------------------------------------
\* The worker thread: _processImage.

\* "requestUrl = self.ProcessRequestUrl if not self.UseFallbackUrl else
\*  self.ProcessRequestFallbackUrl"
RequestUrl_AlwaysPrimary == ProcessRequestUrl

RequestUrl ==
    IF ~UseFallbackUrl THEN ProcessRequestUrl ELSE ProcessRequestFallbackUrl

\* "self.UseFallbackUrl = True" on both failure paths of _processImage
FallbackAfterFailure_Toggled == ~UseFallbackUrl

FallbackAfterFailure == TRUE

\* The path _processImage takes on response r, in the order of its checks.
ProcessOutcome(r) ==
    IF r.raised THEN "exception"
    ELSE IF r.status # 200
    THEN LET e == TryParseApiErrorResponse(r)
         IN  IF e[1] # None /\ e[2] # None THEN "apiError" ELSE "httpError"
    ELSE IF ~r.json THEN "badJson"
    ELSE IF r.NextProcessIntervalSec = Absent THEN "noInterval"
    ELSE IF r.Score = Absent THEN "noScore"
    ELSE IF r.PrintQuality = Absent THEN "noQuality"
    ELSE IF r.WarningSuggested = Absent THEN "noWarning"
    ELSE IF r.PauseSuggested = Absent THEN "noPause"
    ELSE "verdict"

\* The outcomes reached after "self._sanityCheckAndSetProcessingInterval(...)".
IntervalIsSet(o) == o \in {"noScore", "noQuality", "noWarning", "noPause", "verdict"}

\* str(e) of the exception raised on each failing path.
FailureDetails(o) ==
    CASE o = "httpError" -> "Failed to call Process API."
      [] o = "noInterval" -> "Failed to get a valid NextProcessIntervalSec from process API response."
      [] o = "noScore" -> "Failed to get a valid Score from process API response."
      [] o = "noQuality" -> "Failed to get a valid PrintQuality from process API response."
      [] o = "noWarning" -> "Failed to get a valid WarningSuggested from process API response."
      [] o = "noPause" -> "Failed to get a valid PauseSuggested from process API response."
      [] OTHER -> "exception"

\* "self.on_state_update(printQuality, warningSuggested, pauseSuggested, score)"
StateUpdateArgs(r) ==
    <<ValueOf(r.PrintQuality), ValueOf(r.WarningSuggested),
      ValueOf(r.PauseSuggested), ValueOf(r.Score)>>

\* "except Exception as e: self._fireOnError(ErrorTypeCallbackFailure, str(e))"
\* around the call of on_state_update.
OnStateUpdateRaised_AsInternal(t, raises) ==
    FireOnError(t, ErrorTypeInternal, "exception", raises)

OnStateUpdateRaised(t, raises) ==
    FireOnError(t, ErrorTypeCallbackFailure, "exception", raises)

\* _processImage up to requests.post: the request leaves for requestUrl; with
\* no URL to send to, requests.post raises before anything is sent.
SubmitSend(raises) ==
    /\ wpc = "submit"
    /\ IF RequestUrl = None
       THEN /\ UseFallbackUrl' = FallbackAfterFailure
            /\ tick' = FireOnError(tick, ErrorTypeInternal, "exception", raises)
            /\ wpc' = AfterWork(tick', "sleep")
            /\ subFailed' = TRUE
       ELSE /\ tick' = [tick EXCEPT !.subReq = @ + 1, !.subUrl = RequestUrl]
            /\ wpc' = "subWait"
            /\ UNCHANGED <<UseFallbackUrl, subFailed>>
    /\ UNCHANGED <<config, context, lifecycle, hostObs, SleepIntervalSec, hpc,
                   provisioned>>

\* _processImage from the return of requests.post on. cb is what the host's
\* on_state_update does when invoked: "returns", "raises", or "pauses" (it
\* calls pause() on the session, as the example host does, and then returns).
SubmitRecv(r, cb, raises) ==
    /\ wpc = "subWait"
    /\ LET o == ProcessOutcome(r)
           t1 == [tick EXCEPT !.resp = r]
       IN  /\ SleepIntervalSec' =
                 IF IntervalIsSet(o)
                 THEN SanityCheckedInterval(ValueOf(r.NextProcessIntervalSec),
                                            minProcessingIntervalSec)
                 ELSE SleepIntervalSec
           /\ subFailed' = (subFailed \/ o # "verdict")
           /\ IF o = "apiError"
              THEN /\ UseFallbackUrl' = FallbackAfterFailure
                   /\ tick' = LET e == TryParseApiErrorResponse(r)
                              IN  FireOnError(t1, e[1], e[2], raises)
                   /\ wpc' = AfterWork(tick', "sleep")
              ELSE IF o # "verdict"
              THEN /\ UseFallbackUrl' = FallbackAfterFailure
                   /\ tick' = FireOnError(t1, ErrorTypeInternal, FailureDetails(o), raises)
                   /\ wpc' = AfterWork(tick', "sleep")
              ELSE LET t2 == [t1 EXCEPT !.stateCalls = Append(@, StateUpdateArgs(r)),
                                        !.callback = cb]
                   IN  /\ UNCHANGED UseFallbackUrl
                       /\ tick' = IF cb = "raises"
                                  THEN OnStateUpdateRaised(t2, raises)
                                  ELSE t2
                       /\ wpc' = IF cb = "pauses" THEN "cbPause"
                                 ELSE AfterWork(tick', "sleep")
    /\ UNCHANGED <<config, context, lifecycle, hostObs, hpc, provisioned>>

\* The host's on_state_update inside pause(): it runs on the worker thread
\* and needs threadLock like any other caller.
CallbackPause ==
    /\ wpc = "cbPause"
    /\ threadLock = Unlocked
    /\ isPaused' = TRUE
    /\ wpc' = "sleep"
    /\ UNCHANGED <<config, context, hasRan, isRunning, thread, threadLock,
                   hostObs, UseFallbackUrl, SleepIntervalSec, hpc, tick,
                   provisioned, subFailed>>

\* The argument of the time.sleep call the worker is in: "time.sleep(30)"
\* after a failed _ensureSessionContext, "time.sleep(self.SleepIntervalSec)"
\* at the end of the loop body.
SleepingFor ==
    IF wpc = "sleep30" THEN ContextRetrySleepSec ELSE SleepIntervalSec

\* The requests of the session that have been sent and not yet answered:
\* the worker is blocked inside requests.post.
InFlight ==
    (IF wpc = "provWait" THEN 1 ELSE 0) + (IF wpc = "subWait" THEN 1 ELSE 0)

----------------------------------------------------------------------------
\* The host threads that call the session.
HostThreads == DOMAIN hpc

Operations == {"start", "pause", "resume", "stop"}
SupplierOutcomes == {"image", "empty", "raised"}
CallbackOutcomes == {"returns", "raises", "pauses"}

Next ==
    \/ \E h \in HostThreads, op \in Operations : Call(h, op)
    \/ \E h \in HostThreads : start(h)
    \/ \E h \in HostThreads : pause(h)
    \/ \E h \in HostThreads : resume(h)
    \/ \E h \in HostThreads : stop(h)
    \/ \E h \in HostThreads : stopJoined(h)
    \/ LoopTest
    \/ CheckPaused
    \/ EnsureHasContext
    \/ ProvisionSend
    \/ \E r \in ContextResponses, raises \in BOOLEAN : ProvisionRecv(r, raises)
    \/ RetrySleep
    \/ \E o \in SupplierOutcomes, raises \in BOOLEAN : RequestImage(o, raises)
    \/ \E raises \in BOOLEAN : SubmitSend(raises)
    \/ \E r \in ProcessResponses, cb \in CallbackOutcomes, raises \in BOOLEAN :
          SubmitRecv(r, cb, raises)
    \/ CallbackPause
    \/ Sleep

Spec == Init /\ [][Next]_vars

\* The session from before its construction: its operations exist once
\* __init__ has returned.
NextCtor ==
    \/ Construct
    \/ (constructed = "ok" /\ Next)

SpecCtor == InitCtor /\ [][NextCtor]_vars

SpecConcurrent == InitConcurrent /\ [][Next]_vars


----------------------------------------------------------------------------
\* Properties.

\* The worker has finished the work of an iteration (it is about to sleep, or
\* is inside the host's state-update callback waiting to pause).
TickWorkDone == wpc \in {"sleep", "cbPause"}

\* C1: start() succeeds exactly when no start() has run before on the
\* session; every later start(), also one made after stop(), raises, launches
\* no worker and leaves isRunning, isPaused, the thread and the worker's
\* position as they were.
C1_StartOnlyOnce ==
    [][\A h \in Hosts :
         (hpc[h] = "start" /\ hpc'[h] = "idle") =>
            IF startCalled
            THEN /\ startResult' = "raised"
                 /\ launched' = launched
                 /\ UNCHANGED <<isRunning, isPaused, thread, wpc>>
            ELSE /\ startResult' = "ok"
                 /\ launched' = 1
                 /\ isRunning' = TRUE
                 /\ thread' # None
                 /\ wpc' = "loop"]_vars

\* A start() made after stop() has joined the worker was refused.
C1_Witness ==
    /\ startResult = "raised"
    /\ launched = 1
    /\ wpc = "exited"
    /\ thread = None
    /\ isRunning = FALSE

\* max(m, clamp(v, 20, 1800)), written out case by case.
GovernedInterval(v, m) ==
    LET clamped == IF v < 20 THEN 20 ELSE IF v > 1800 THEN 1800 ELSE v
    IN  IF m > clamped THEN m ELSE clamped

\* C2: once a response's hint v has been applied, the sleep interval is
\* max(m, clamp(v, 20, 1800)) for the configured minimum m; (5, 0) gives 20,
\* (5000, 0) gives 1800 and (10, 120) gives 120.
C2_HintGoverned ==
    tick.resp.NextProcessIntervalSec # Absent =>
        LET v == ValueOf(tick.resp.NextProcessIntervalSec)
            m == minProcessingIntervalSec
        IN  /\ SleepIntervalSec = GovernedInterval(v, m)
            /\ (v = 5 /\ m = 0) => SleepIntervalSec = 20
            /\ (v = 5000 /\ m = 0) => SleepIntervalSec = 1800
            /\ (v = 10 /\ m = 120) => SleepIntervalSec = 120

\* The hint 10 was applied under a minimum of 120.
C2_Witness ==
    /\ tick.resp.NextProcessIntervalSec = Some(10)
    /\ minProcessingIntervalSec = 120
    /\ SleepIntervalSec = 120

\* C3: the sleep interval is always at least 20 and at least
\* minProcessingIntervalSec; it is at most 1800 when the minimum is, and
\* equal to the minimum otherwise.
C3_IntervalBounds ==
    /\ SleepIntervalSec >= 20
    /\ SleepIntervalSec >= minProcessingIntervalSec
    /\ minProcessingIntervalSec <= 1800 => SleepIntervalSec <= 1800
    /\ minProcessingIntervalSec > 1800 => SleepIntervalSec = minProcessingIntervalSec

\* A hint below the floor was applied after the session had been paused.
C3_Witness ==
    /\ tick.resp.NextProcessIntervalSec = Some(5)
    /\ minProcessingIntervalSec = 0
    /\ SleepIntervalSec = 20
    /\ isPaused

C5_NoImageNoSubmission ==
    tick.supplier \in {"empty", "raised"} =>
        /\ tick.subReq = 0
        /\ tick.stateCalls = <<>>
        /\ wpc = "sleep"
        /\ tick.errs = IF tick.supplier = "raised" /\ hasOnError
                       THEN <<<<ErrorTypeCallbackFailure, "exception">>>>
                       ELSE <<>>

\* The supplier raised and the handler was told.
C5_Witness ==
    /\ tick.supplier = "raised"
    /\ tick.errs = <<<<ErrorTypeCallbackFailure, "exception">>>>
    /\ tick.subReq = 0

\* C6: when on_error raises, the exception stays inside _fireOnError, the
\* worker goes on to its sleep, and the handler has been invoked once for
\* the failure; without a handler the event is dropped and nothing is raised.
C6_HandlerFailureContained ==
    /\ wpc # "crashed"
    /\ ~tick.escaped
    /\ tick.handlerRaised => (Len(tick.errs) = 1 /\ wpc \in {"sleep", "sleep30"})
    /\ ~hasOnError => (tick.errs = <<>> /\ ~tick.handlerRaised)

\* The handler raised on a submission failure and the worker is at its sleep.
C6_Witness ==
    /\ tick.handlerRaised
    /\ tick.subReq = 1
    /\ Len(tick.errs) = 1
    /\ wpc = "sleep"

\* C7: after a createcontext response that provisions the session, no
\* createcontext request is sent again and ContextId, ProcessRequestUrl and
\* ProcessRequestFallbackUrl never change.
C7_ProvisionedOnce ==
    [][provisioned =>
         /\ UNCHANGED <<ContextId, ProcessRequestUrl, ProcessRequestFallbackUrl>>
         /\ tick'.provReq <= tick.provReq
         /\ wpc' # "provWait"]_vars

\* A later iteration found the context in place and sent no request.
C7_Witness ==
    /\ provisioned
    /\ tick.ensure = "ok"
    /\ tick.provReq = 0
    /\ ContextId = CtxIdValue
    /\ ProcessRequestUrl = PrimaryUrlValue
    /\ ProcessRequestFallbackUrl = FallbackUrlValue

\* C8: whenever _ensureSessionContext reports success, the context id and
\* both URLs are present (a 200 response lacking one of them leaves the
\* session unprovisioned).
C8_AsClaimed ==
    tick.ensure = "ok" =>
        /\ ContextId # None
        /\ ProcessRequestUrl # None
        /\ ProcessRequestFallbackUrl # None

\* C9: a 200 response with NextProcessIntervalSec, Score, WarningSuggested
\* and PauseSuggested but no PrintQuality is a verdict: on_state_update is
\* invoked, the interval is the governed hint, no error is reported and the
\* fallback is not activated.
C9_AsClaimed ==
    (/\ TickWorkDone
     /\ tick.resp.status = 200 /\ tick.resp.json
     /\ AbsentFields(tick.resp) = {"PrintQuality"}) =>
        /\ Len(tick.stateCalls) = 1
        /\ SleepIntervalSec = GovernedInterval(ValueOf(tick.resp.NextProcessIntervalSec),
                                               minProcessingIntervalSec)
        /\ tick.errs = <<>>
        /\ tick.dropped = 0
        /\ tick.subUrl = PrimaryUrlValue => ~UseFallbackUrl

\* C10: on a successful submission on_state_update is invoked once, with
\* Score first, then WarningSuggested and PauseSuggested, and the print
\* quality last.
C10_AsClaimed ==
    (/\ TickWorkDone
     /\ tick.resp.status = 200 /\ tick.resp.json
     /\ AbsentFields(tick.resp) = {}) =>
        /\ Len(tick.stateCalls) = 1
        /\ tick.stateCalls[1][1] = ValueOf(tick.resp.Score)
        /\ tick.stateCalls[1][2] = ValueOf(tick.resp.WarningSuggested)
        /\ tick.stateCalls[1][3] = ValueOf(tick.resp.PauseSuggested)
        /\ tick.stateCalls[1][4] = ValueOf(tick.resp.PrintQuality)


\* C11: constructing a session with an empty or missing API key, a missing
\* image-supplier or state-update callback, a negative minimum interval or a
\* confidence level outside 1..5 raises: no session is there to use, no
\* worker exists and no request is sent.
C11_InvalidConstructionFails ==
    LET outside(level) == level # Absent /\ ValueOf(level) \notin 1..5
        invalid == \/ apiKey \in {None, ""}
                   \/ ~hasImageRequest
                   \/ ~hasStateUpdate
                   \/ minProcessingIntervalSec < 0
                   \/ outside(warningConfidenceLevel)
                   \/ outside(pauseConfidenceLevel)
    IN  /\ (constructed # "pending" /\ invalid) => constructed = "raised"
        /\ (constructed # "pending" /\ ~invalid) => constructed = "ok"
        /\ constructed # "ok" =>
              /\ wpc = "unborn"
              /\ thread = None
              /\ launched = 0
              /\ tick = NewTick
              /\ \A h \in Hosts : hpc[h] = "idle"

\* A pause confidence level of 6, with everything else valid, was refused.
C11_Witness ==
    /\ constructed = "raised"
    /\ pauseConfidenceLevel = Some(6)
    /\ warningConfidenceLevel = Some(5)
    /\ apiKey = "key" /\ hasImageRequest /\ hasStateUpdate
    /\ minProcessingIntervalSec = 0


\* C12: an iteration that finds the paused flag set sends no provisioning
\* and no submission request, invokes neither the image supplier nor
\* on_state_update, and goes to its sleep; an iteration that finds it clear
\* goes on to _ensureSessionContext. pause() and resume() set the flag
\* whenever they are called (also before start()) and leave the worker's
\* position and the work of the current iteration untouched.
C12_PausedIterationsOnlySleep ==
    /\ [](tick.paused =>
            /\ tick.provReq = 0
            /\ tick.subReq = 0
            /\ tick.supplier = "none"
            /\ tick.stateCalls = <<>>
            /\ tick.errs = <<>>
            /\ wpc = "sleep")
    /\ [][(wpc = "body" /\ wpc' # "body") =>
            IF isPaused
            THEN wpc' = "sleep" /\ tick'.paused
            ELSE wpc' = "ensure" /\ ~tick'.paused]_vars
    /\ [][\A h \in Hosts :
            (hpc[h] \in {"pause", "resume"} /\ hpc'[h] = "idle") =>
                /\ isPaused' = (hpc[h] = "pause")
                /\ UNCHANGED <<wpc, tick>>]_vars

\* A provisioned session was paused and its worker skipped an iteration.
C12_Witness ==
    /\ tick.paused
    /\ wpc = "sleep"
    /\ provisioned
    /\ isRunning


\* C13: when stop() returns on a started session the worker has left its
\* loop, and from then on it sends no request and invokes no callback.
C13_StopQuiesces ==
    /\ [][\A h \in Hosts :
            (hpc[h] = "join" /\ hpc'[h] = "idle") => wpc = "exited"]_vars
    /\ [](hasRan /\ thread = None => wpc = "exited")
    /\ [][(hasRan /\ thread = None) =>
            (wpc' = "exited" /\ tick' = tick /\ thread' = None)]_vars

\* stop() has returned on a session whose worker had provisioned a context
\* and seen a submission fail.
C13_Witness ==
    /\ hasRan
    /\ thread = None
    /\ wpc = "exited"
    /\ provisioned
    /\ subFailed
    /\ \A h \in Hosts : hpc[h] = "idle"


\* A step inside a lifecycle call already entered, and a step of the worker.
CallProgress ==
    \E h \in Hosts : start(h) \/ pause(h) \/ resume(h) \/ stop(h) \/ stopJoined(h)

WorkerProgress ==
    \/ LoopTest \/ CheckPaused \/ EnsureHasContext \/ ProvisionSend
    \/ \E r \in ContextResponses, raises \in BOOLEAN : ProvisionRecv(r, raises)
    \/ RetrySleep
    \/ \E o \in SupplierOutcomes, raises \in BOOLEAN : RequestImage(o, raises)
    \/ \E raises \in BOOLEAN : SubmitSend(raises)
    \/ \E r \in ProcessResponses, cb \in CallbackOutcomes, raises \in BOOLEAN :
          SubmitRecv(r, cb, raises)
    \/ CallbackPause
    \/ Sleep

\* C14: the lifecycle operations are deadlock-free: while a call to start(),
\* pause(), resume() or stop() has not returned, the call or the worker it
\* waits for can take a step, also when stop() is called while the worker is
\* inside an on_state_update that calls pause().
C14_AsClaimed ==
    (\E h \in Hosts : hpc[h] # "idle") => ENABLED (CallProgress \/ WorkerProgress)


\* C15: no failure terminates the worker: it never dies of an exception, it
\* leaves its loop only at the loop test with the running flag cleared, and
\* whenever it has exited the running flag is false.
C15_NoFailureEndsWorker ==
    /\ [](wpc # "crashed" /\ (wpc = "exited" => isRunning = FALSE))
    /\ [][(wpc # "exited" /\ wpc' = "exited") =>
            (wpc = "loop" /\ isRunning = FALSE)]_vars

\* The worker went through a failed submission and has exited after stop(),
\* which is still waiting in join().
C15_Witness ==
    /\ wpc = "exited" /\ subFailed /\ thread # None
    /\ \E h \in Hosts : hpc[h] = "join"


\* The submission of the current iteration was answered by a transport
\* exception or a status other than 200, and _processImage has returned.
SubmissionFailedThisTick ==
    /\ wpc = "sleep"
    /\ tick.subReq = 1
    /\ tick.resp # NoResponse
    /\ (tick.resp.raised \/ tick.resp.status # 200)

\* C16: after a tick whose submission failed (transport exception, or a
\* non-200 status with or without a parseable error body) the fallback flag
\* is true, on_state_update was not invoked on that tick, and on_error
\* received exactly the server's (ErrorType, ErrorDetails) pair when the
\* body carries both fields, and one OE_SDK_ERROR event otherwise.
C16_FailedSubmissionTick ==
    SubmissionFailedThisTick =>
        /\ UseFallbackUrl = TRUE
        /\ tick.stateCalls = << >>
        /\ hasOnError =>
              /\ Len(tick.errs) = 1
              /\ IF tick.resp.json /\ tick.resp.ErrorType # None
                    /\ tick.resp.ErrorDetails # None
                 THEN tick.errs[1] = <<tick.resp.ErrorType, tick.resp.ErrorDetails>>
                 ELSE tick.errs[1][1] = ErrorTypeInternal
        /\ ~hasOnError => (tick.errs = << >> /\ tick.dropped = 1)

\* A submission to the primary URL was answered 500 with a complete error
\* body, and the host's on_error received that pair.
C16_Witness ==
    /\ SubmissionFailedThisTick
    /\ tick.subUrl = PrimaryUrlValue
    /\ tick.resp.status = 500
    /\ tick.errs = <<<<"OE_API_ERROR", "details">>>>
    /\ UseFallbackUrl


\* C17: the governed interval changes only on a tick that delivers a
\* verdict: a step that changes SleepIntervalSec is the step that invoked
\* on_state_update, so a 200 response lacking a verdict field (one with
\* NextProcessIntervalSec but no Score, say), a provisioning failure, a
\* supplier failure and a paused tick all leave the interval as it was.
C17_AsClaimed ==
    [][SleepIntervalSec' # SleepIntervalSec =>
          (Len(tick'.stateCalls) = 1 /\ tick.stateCalls = << >>)]_vars


\* C18: every loop iteration, one whose context provisioning failed
\* included, ends by sleeping the current governed interval, so the worker
\* never sleeps less than minProcessingIntervalSec between two iterations.
C18_AsClaimed ==
    wpc \in {"sleep", "sleep30"} =>
        /\ SleepingFor = SleepIntervalSec
        /\ SleepingFor >= minProcessingIntervalSec


\* C19: a failed context provisioning attempt (API error, non-200 status,
\* transport exception or incomplete response) reports exactly one error
\* event, does not set the fallback flag, invokes neither the image supplier
\* nor on_state_update on that tick, and is retried on the next non-paused
\* loop pass: until an attempt has succeeded, every pass that reaches
\* _ensureSessionContext sends a createcontext request.
C19_AsClaimed ==
    /\ [](tick.ensure = "failed" =>
            /\ Len(tick.errs) + tick.dropped = 1
            /\ tick.supplier = "none"
            /\ tick.stateCalls = << >>
            /\ tick.subReq = 0)
    /\ [][wpc = "provWait" => UNCHANGED UseFallbackUrl]_vars
    /\ [][(wpc = "ensure" /\ wpc' # "ensure" /\ ~provisioned) =>
            wpc' = "provWait"]_vars


\* C20: when on_state_update raises on a successful submission, exactly one
\* OE_SDK_CALLBACK_EXCEPTION event is handed to the error reporter (and
\* reaches on_error when one is registered), that step leaves the fallback
\* flag as it was, the interval is the governed hint of the verdict, and the
\* worker is at its sleep.
C20_CallbackFailureContained ==
    /\ [](tick.callback = "raises" =>
            /\ wpc = "sleep"
            /\ Len(tick.stateCalls) = 1
            /\ hasOnError =>
                  tick.errs = <<<<ErrorTypeCallbackFailure, "exception">>>>
            /\ ~hasOnError => (tick.errs = << >> /\ tick.dropped = 1)
            /\ SleepIntervalSec =
                  GovernedInterval(ValueOf(tick.resp.NextProcessIntervalSec),
                                   minProcessingIntervalSec))
    /\ [][(tick.callback # "raises" /\ tick'.callback = "raises") =>
            (UNCHANGED UseFallbackUrl /\ wpc' = "sleep")]_vars
    /\ [][(tick.callback = "raises" /\ wpc # wpc') => wpc' = "loop"]_vars

\* on_state_update raised on a verdict fetched from the primary URL; the
\* host's on_error got the callback event, the fallback is still off and the
\* interval moved from its default to the hinted 45 seconds.
C20_Witness ==
    /\ tick.callback = "raises"
    /\ hasOnError
    /\ tick.errs = <<<<ErrorTypeCallbackFailure, "exception">>>>
    /\ UseFallbackUrl = FALSE
    /\ tick.subUrl = PrimaryUrlValue
    /\ SleepIntervalSec = 45
    /\ wpc = "sleep"


\* time.sleep returns: the requested time has passed. Nothing else in the
\* session ends a time.sleep call.
SleepExpires == Sleep \/ RetrySleep

\* C21: when stop() is called while the worker is in its inter-tick sleep,
\* the sleep is cancelled: while stop() waits in join() and the worker
\* sleeps, the worker or stop() can take a step that is not the expiry of
\* the sleep.
C21_AsClaimed ==
    ((\E h \in Hosts : hpc[h] = "join") /\ wpc = "sleep") =>
        ENABLED ((CallProgress \/ WorkerProgress) /\ ~SleepExpires)


\* C22: for any interleaving of concurrent start(), pause(), resume() and
\* stop() calls from several host threads, at most one worker is ever
\* created for the session (a worker is created only by a start() that
\* finds no worker was created before), and at most one provisioning or
\* submission request is in flight, always that of the one worker.
C22_SingleWorkerSingleRequest ==
    /\ [](/\ launched <= 1
          /\ InFlight <= 1
          /\ InFlight = 1 => (launched = 1 /\ hasRan = TRUE /\ thread # None))
    /\ [][launched' # launched =>
            /\ launched = 0 /\ launched' = 1
            /\ \E h \in HostThreads : hpc[h] = "start" /\ hpc'[h] = "idle"]_vars

\* Two host threads are inside calls at once (one more start() and a
\* pause()), an earlier repeated start() has been refused, and the one
\* worker has a submission in flight.
C22_Witness ==
    /\ launched = 1
    /\ startResult = "raised"
    /\ wpc = "subWait"
    /\ hpc[1] = "start"
    /\ hpc[2] = "pause"


\* C23: each loop iteration hands at most one error event to _fireOnError,
\* and so dispatches at most one to the host's on_error: no failure path
\* (provisioning, image supplier, submission, response parsing,
\* on_state_update, a raising on_error) reports a failure twice or reports
\* a second error after the first within the iteration.
C23_OneErrorPerIteration ==
    /\ [](Len(tick.errs) + tick.dropped <= 1)
    /\ [][Len(tick'.errs) > Len(tick.errs) =>
            (tick.errs = << >> /\ Len(tick'.errs) = 1)]_vars

\* The image supplier raised, on_error was invoked once with the callback
\* event and raised itself, and the iteration is at its sleep.
C23_Witness ==
    /\ wpc = "sleep"
    /\ tick.supplier = "raised"
    /\ tick.handlerRaised
    /\ tick.errs = <<<<ErrorTypeCallbackFailure, "exception">>>>

====
